---- MODULE Spec2Model ----
(***************************************************************************)
(* A model of astroquery.irsa.core: the IRSA catalog query client.         *)
(*                                                                         *)
(* One call of query_region, query_region_async or _parse_result is one   *)
(* action.  The state records the arguments of the call in progress or    *)
(* last finished, the payload it assembled, the requests it handed to the *)
(* transport helper, what happened to the temporary file and the parser,  *)
(* and how the call ended (a returned value or a raised exception).       *)
(*                                                                         *)
(* Python values are tagged records: None, str (a sequence of one-        *)
(* character strings where the text is built or inspected, a plain string *)
(* for enumerated names), num, Quantity, coord, tuple, list.  Degree      *)
(* values are whole numbers; str.format renders them in decimal digits.   *)
(* A Python list is a sequence of its items.                               *)
(***************************************************************************)
EXTENDS Integers, Sequences, FiniteSets, TLC

VARIABLES build, pc, call, payload, sent, parser, tmpfile, logged, warned, result

vars == <<build, pc, call, payload, sent, parser, tmpfile, logged, warned, result>>

\* ------------------------------------------------------------------ bounds

\* The longest polygon list a call is given.
MaxPoly == 2

\* The longest response body handed to _parse_result, in segments.
MaxBody == 2

\* The longest body the service answers a request with, in segments.
MaxAnswer == 1

\* ------------------------------------------------------------ Python values

None == [t |-> "None"]

StrV(s) == [t |-> "str", v |-> s]

NumV(n) == [t |-> "num", v |-> n]

Quantity(value, unit) == [t |-> "Quantity", value |-> value, unit |-> unit]

\* A coordinate object (a SphericalCoordinatesBase), by its ICRS position.
CoordV(ra, dec) == [t |-> "coord", ra |-> ra, dec |-> dec]

TupleV(a, b) == [t |-> "tuple", a |-> a, b |-> b]

\* An Angle object, by its value in degrees.
AngleV(d) == [t |-> "Angle", degree |-> d]

\* How a call or a helper ends: a value, or a raised exception.
\* w is the set of warnings issued on the way.
Ok(v) == [ok |-> TRUE, v |-> v, w |-> {}]

Raise(exc, msg) == [ok |-> FALSE, exc |-> exc, msg |-> msg, w |-> {}]

\* The outcome o, with the warnings w issued before it.
After(w, o) == [o EXCEPT !.w = @ \cup w]

\* Python's exception classes, as far as the except clauses tell them apart:
\* astropy's UnitsException derives from ValueError, UnboundLocalError from
\* NameError.
IsInstance(exc, cls) ==
    \/ exc = cls
    \/ cls = "Exception"
    \/ (exc = "UnitsException" /\ cls = "ValueError")
    \/ (exc = "UnboundLocalError" /\ cls = "NameError")

\* ------------------------------------------------------------------- text

Digit(d) == CASE d = 0 -> "0" [] d = 1 -> "1" [] d = 2 -> "2" [] d = 3 -> "3"
              [] d = 4 -> "4" [] d = 5 -> "5" [] d = 6 -> "6" [] d = 7 -> "7"
              [] d = 8 -> "8" [] d = 9 -> "9"

RECURSIVE NatToStr(_)
NatToStr(n) == IF n < 10 THEN <<Digit(n)>>
               ELSE NatToStr(n \div 10) \o <<Digit(n % 10)>>

\* '{0}'.format(n): a minus sign for a negative number, no sign otherwise.
FormatPlain(n) == IF n < 0 THEN <<"-">> \o NatToStr(-n) ELSE NatToStr(n)

\* '{0:+}'.format(n): the sign always.
FormatSigned(n) == IF n < 0 THEN <<"-">> \o NatToStr(-n) ELSE <<"+">> \o NatToStr(n)

\* sep.join(parts)
RECURSIVE Join(_, _)
Join(parts, sep) ==
    IF Len(parts) = 0 THEN <<>>
    ELSE IF Len(parts) = 1 THEN parts[1]
    ELSE parts[1] \o sep \o Join(Tail(parts), sep)

\* The text of the coordinate strings a caller passes.
S_M31 == <<"M", "3", "1">>

S_deg == <<"1", "0", "d", " ", "+", "4", "1", "d">>

S_neg == <<"2", "0", "d", " ", "-", "5", "d">>

S_nounit == <<"1", "0", " ", "+", "4", "1">>

S_5d == <<"5", "d">>

\* ------------------------------------------------- the astropy collaborators

\* coord.ICRSCoordinates(x): a coordinate object as it is, a string parsed as
\* an ICRS position.  A string that names an object is no coordinate
\* (ValueError), one without units is a UnitsException; what a value that is
\* neither a string nor a coordinate raises is the library's choice.
ICRSCoordinates(x) ==
    CASE x.t = "coord" -> Ok(x)
      [] x.t = "str" ->
           (CASE x.v = S_deg -> Ok(CoordV(10, 41))
              [] x.v = S_neg -> Ok(CoordV(20, -5))
              [] x.v = S_nounit -> Raise("UnitsException", "No unit specified")
              [] OTHER -> Raise("ValueError", "Could not parse coordinates"))
      [] OTHER -> Raise(build.icrsBadType, "Cannot create a coordinate")

\* coord.Angle(x).degree: a number or digit string without a unit is a
\* UnitsException.
AngleDegree(x) ==
    CASE x.t = "Angle" -> Ok(NumV(x.degree))
      [] x.t = "str" -> IF x.v = S_5d THEN Ok(NumV(5))
                        ELSE Raise("UnitsException", "No unit specified")
      [] x.t = "num" -> Raise("UnitsException", "No unit specified")
      [] OTHER -> Raise("TypeError", "Cannot create an Angle")

\* The size of an angular unit, in arc-seconds.
ArcsecPer(unit) ==
    CASE unit = "arcsec" -> 1
      [] unit = "arcmin" -> 60
      [] unit = "deg" -> 3600
      [] unit = "hourangle" -> 54000

\* u.deg.find_equivalent_units()
EquivalentUnits == {"arcsec", "arcmin", "deg", "hourangle"}

\* Quantity.to(unit); the inputs are chosen so that the result is whole.
To(q, unit) == Quantity((q.value * ArcsecPer(q.unit)) \div ArcsecPer(unit), unit)

\* commons.parse_radius(radius): a string is parsed as an Angle, anything else
\* must be a Quantity with an angular unit.
parse_radius(radius) ==
    CASE radius.t = "str" -> AngleDegree(radius)
      [] radius.t = "Quantity" ->
           IF radius.unit \in EquivalentUnits
           THEN Ok(NumV(To(radius, "deg").value))
           ELSE Raise("UnitsException", "not an angular unit")
      [] OTHER -> Raise("AttributeError", "no attribute 'value'")

\* --------------------------------------------------- the module's functions

_is_coordinate(coordinates) ==
    LET c == ICRSCoordinates(coordinates)
    IN  IF c.ok THEN Ok(TRUE)
        ELSE IF IsInstance(c.exc, "ValueError") THEN Ok(FALSE)
        ELSE c

_format_decimal_coords(ra, dec) ==
    IF ra.t = "num" /\ dec.t = "num"
    THEN Ok(StrV(FormatPlain(ra.v) \o <<" ">> \o FormatSigned(dec.v)))
    ELSE Raise("ValueError", "Sign not allowed in string format specifier")

_parse_coordinates(coordinates) ==
    IF coordinates.t = "str"
    THEN LET c == ICRSCoordinates(coordinates)
         IN  IF c.ok
             THEN After({"interpreted as ICRS"},
                        _format_decimal_coords(NumV(c.v.ra), NumV(c.v.dec)))
             ELSE IF IsInstance(c.exc, "UnitsException")
             THEN After({"only ICRS strings"}, c)
             ELSE c
    ELSE IF coordinates.t = "coord"
    THEN _format_decimal_coords(NumV(coordinates.ra), NumV(coordinates.dec))
    ELSE Raise("TypeError", "Argument cannot be parsed as a coordinate")

\* The dimension without the conversion of the units the service does not
\* accept.
_parse_dimension_unconverted(dim) ==
    IF dim.t = "Quantity" /\ dim.unit \in EquivalentUnits
    THEN Ok(dim)
    ELSE IF parse_radius(dim).ok THEN Ok(Quantity(parse_radius(dim).v.v, "deg"))
    ELSE Raise("UnitsException", "Dimension not in proper units")

_parse_dimension(dim) ==
    IF dim.t = "Quantity" /\ dim.unit \in EquivalentUnits
    THEN IF dim.unit \notin {"arcsec", "arcmin", "deg"}
         THEN Ok(To(dim, "deg"))
         ELSE Ok(dim)
    ELSE LET new_dim == parse_radius(dim)
         IN  IF new_dim.ok THEN Ok(Quantity(new_dim.v.v, "deg"))
             ELSE IF new_dim.exc \in {"UnitsException", "UnitsError", "AttributeError"}
             THEN Raise("UnitsException", "Dimension not in proper units")
             ELSE new_dim

\* A Python list, by its items in order.
PyList(items) == [t |-> "pylist", items |-> items]

\* A list comprehension over items whose evaluations end as outs: the values
\* in order, or the first exception raised, with the warnings up to there.
Comprehension(outs) ==
    LET bad == {i \in 1..Len(outs) : ~outs[i].ok}
    IN  IF bad = {}
        THEN After(UNION {outs[i].w : i \in 1..Len(outs)},
                   Ok([i \in 1..Len(outs) |-> outs[i].v]))
        ELSE LET k == CHOOSE i \in bad : \A j \in bad : i <= j
             IN  After(UNION {outs[i].w : i \in 1..(k - 1)}, outs[k])

\* pair[i], for i in 0..1.
Index(pair, i) ==
    CASE pair.t = "tuple" -> Ok(IF i = 0 THEN pair.a ELSE pair.b)
      [] pair.t = "str" -> Ok(StrV(<<pair.v[i + 1]>>))
      [] OTHER -> Raise("TypeError", "object does not support indexing")

\* The outcome of g(v) when the evaluation before it ended with the value v,
\* and the exception it raised otherwise: one statement after another.
Then(o, g(_)) == IF o.ok THEN After(o.w, g(o.v)) ELSE o

\* (coord.Angle(pair[0]).degree, coord.Angle(pair[1]).degree)
PairDegrees(pair) ==
    LET second(d0) ==
            LET make(d1) == Ok(TupleV(d0, d1))
                deg1(p1) == Then(AngleDegree(p1), make)
            IN  Then(Index(pair, 1), deg1)
        deg0(p0) == Then(AngleDegree(p0), second)
    IN  Then(Index(pair, 0), deg0)

\* _format_decimal_coords(pair[0], pair[1])
FormatPair(pair) ==
    LET first(p0) ==
            LET format(p1) == _format_decimal_coords(p0, p1)
            IN  Then(Index(pair, 1), format)
    IN  Then(Index(pair, 0), first)

\* ','.join(coordinates_list)
Joined(coordinates_list) ==
    Ok(StrV(Join([i \in 1..Len(coordinates_list) |-> coordinates_list[i].v], <<",">>)))

\* The except clause of the polygon branch, entered when polygon[0] is a
\* tuple: the pairs converted to degrees (degrees), unless that raised a
\* UnitsException, then formatted and joined.
PolygonFallback(polygon, degrees) ==
    LET format(pairs) ==
            Then(Comprehension([i \in 1..Len(pairs) |-> FormatPair(pairs[i])]), Joined)
    IN  IF degrees.ok THEN Then(degrees, format)
        ELSE IF IsInstance(degrees.exc, "UnitsException")
        THEN After(degrees.w \cup {"decimal degree units"}, format(polygon.items))
        ELSE degrees

\* The polygon branch of _parse_spatial from its try statement on, first
\* being how the comprehension over _parse_coordinates ended: the value of
\* request_payload['polygon'], or the exception raised.
PolygonAfter(polygon, first) ==
    IF first.ok THEN Then(first, Joined)
    ELSE IF ~(IsInstance(first.exc, "ValueError") \/ IsInstance(first.exc, "TypeError"))
    THEN first
    ELSE IF polygon.t # "pylist"
    THEN After(first.w, Raise("TypeError", "object has no attribute '__getitem__'"))
    ELSE IF polygon.items[1].t # "tuple"
    THEN After(first.w, Raise("UnboundLocalError",
               "local variable 'coordinates_list' referenced before assignment"))
    ELSE After(first.w,
               PolygonFallback(polygon,
                   Comprehension([i \in 1..Len(polygon.items) |->
                                    PairDegrees(polygon.items[i])])))

PolygonString(polygon) ==
    PolygonAfter(polygon,
        IF polygon.t = "pylist"
        THEN Comprehension([i \in 1..Len(polygon.items) |->
                              _parse_coordinates(polygon.items[i])])
        ELSE Raise("TypeError", "object is not iterable"))

\* request_payload['objstr'], as the three branches that set it compute it.
ObjStr(coordinates) ==
    LET choose(is) == IF is THEN _parse_coordinates(coordinates) ELSE Ok(coordinates)
    IN  Then(_is_coordinate(coordinates), choose)

\* The Cone branch, after objstr is set.
ConeKeys(objstr, radius) ==
    LET keys(r) == Ok(("objstr" :> objstr)
                      @@ ("radius" :> NumV(r.value))
                      @@ ("radunits" :> StrV(r.unit))
                      @@ ("spatial" :> StrV("Cone")))
    IN  Then(_parse_dimension(radius), keys)

\* The Box branch with the value of the width as given, in its own unit.
BoxKeysUnconverted(objstr, width) ==
    LET keys(w) == Ok(("objstr" :> objstr)
                      @@ ("size" :> NumV(w.value))
                      @@ ("spatial" :> StrV("Box")))
    IN  Then(_parse_dimension(width), keys)

\* The Box branch, after objstr is set.
BoxKeys(objstr, width) ==
    LET keys(w) == Ok(("objstr" :> objstr)
                      @@ ("size" :> NumV(To(w, "arcsec").value))
                      @@ ("spatial" :> StrV("Box")))
    IN  Then(_parse_dimension(width), keys)

\* The Polygon branch: objstr only when coordinates are given.
PolygonKeys(coordinates, polygon) ==
    LET keys(objstr) ==
            LET all(poly) == Ok((IF coordinates.t # "None"
                                 THEN ("objstr" :> objstr) ELSE <<>>)
                                @@ ("polygon" :> poly)
                                @@ ("spatial" :> StrV("Polygon")))
            IN  Then(PolygonString(polygon), all)
    IN  Then(IF coordinates.t # "None" THEN ObjStr(coordinates) ELSE Ok(None), keys)

\* The mode passed on as the caller wrote it.
AllSkyKeysUnencoded == Ok("spatial" :> StrV("All-Sky"))

\* The spatial mode "All-Sky", encoded for the service.
AllSkyKeys == Ok("spatial" :> StrV("NONE"))

\* No last branch: the mode is passed on without geometry.
UnrecognizedPassedOn(spatial) == Ok("spatial" :> StrV(spatial))

\* The last branch of _parse_spatial: a mode that is none of the four.
Unrecognized(spatial) ==
    Raise("ValueError",
          <<"Unrecognized spatial query type. ", "Must be one of '", "Cone",
            "', '", "Box", "', '", "Polygon", "', or '", "All-Sky", "'.">>)

_parse_spatial(spatial, coordinates, radius, width, polygon) ==
    LET cone(objstr) == ConeKeys(objstr, radius)
        box(objstr) == BoxKeys(objstr, width)
    IN  IF spatial = "All-Sky" THEN AllSkyKeys
        ELSE IF spatial = "Cone" THEN Then(ObjStr(coordinates), cone)
        ELSE IF spatial = "Box" THEN Then(ObjStr(coordinates), box)
        ELSE IF spatial = "Polygon" THEN PolygonKeys(coordinates, polygon)
        ELSE Unrecognized(spatial)

\* The configured row limit is read when the payload is built.
_args_to_payload(catalog) ==
    ("catalog" :> catalog) @@ ("outfmt" :> NumV(3)) @@ ("outrows" :> NumV(build.ROW_LIMIT))

\* ------------------------------------------------------------ the responses

NotOnList == "The catalog is not on the list"

BadObject == "Either wrong or missing coordinate/object name"

\* What a response body is made of: the service's two error texts, a VOTable
\* with rows, one without rows, one whose conversion to a table fails, and
\* text that is no VOTable.
Segments == {NotOnList, BadObject, "<TABLE rows>", "<TABLE empty>", "<TABLE odd>", "text"}

RECURSIVE SeqsUpTo(_, _)
SeqsUpTo(S, n) ==
    IF n = 0 THEN {<<>>}
    ELSE LET shorter == SeqsUpTo(S, n - 1)
         IN  shorter \cup {Append(q, x) : q \in {r \in shorter : Len(r) = n - 1}, x \in S}

Bodies == SeqsUpTo(Segments, MaxBody)

\* phrase in content
Contains(content, phrase) == \E i \in 1..Len(content) : content[i] = phrase

\* votable.parse(output.name, pedantic=False).get_first_table(): the first
\* table of the file, an exception when the file holds none.
FirstTable(content) ==
    LET tables == {i \in 1..Len(content) :
                     content[i] \in {"<TABLE rows>", "<TABLE empty>", "<TABLE odd>"}}
    IN  IF tables = {} THEN Raise("Exception", "no table found")
        ELSE Ok(content[CHOOSE i \in tables : \A j \in tables : i <= j])

\* first_table.to_table(): the rows of the table, as many as it has.
ToTable(first_table) ==
    CASE first_table = "<TABLE rows>" -> Ok([t |-> "Table", len |-> 1])
      [] first_table = "<TABLE empty>" -> Ok([t |-> "Table", len |-> 0])
      [] OTHER -> Raise("Exception", "cannot convert to a table")

\* The checks with the object-name check first.
ErrorChecksObjectFirst(content) ==
    IF \E i \in 1..Len(content) : content[i] = BadObject
    THEN Raise("Exception", "Malformed coordinate/object name")
    ELSE IF \E i \in 1..Len(content) : content[i] = NotOnList
    THEN Raise("Exception", "Catalog not found")
    ELSE IF Len(content) = 0
    THEN Raise("Exception", "The IRSA server sent back an empty reply")
    ELSE Ok(content)

\* The checks without the check of the length.
ErrorChecksNoLength(content) ==
    IF \E i \in 1..Len(content) : content[i] = NotOnList
    THEN Raise("Exception", "Catalog not found")
    ELSE IF \E i \in 1..Len(content) : content[i] = BadObject
    THEN Raise("Exception", "Malformed coordinate/object name")
    ELSE Ok(content)

\* The three checks of the response body that _parse_result starts with: the
\* exception one of them raises, or the body.
ErrorChecks(content) ==
    IF Contains(content, NotOnList)
    THEN Raise("Exception", "Catalog not found")
    ELSE IF Contains(content, BadObject)
    THEN Raise("Exception", "Malformed coordinate/object name")
    ELSE IF Len(content) = 0
    THEN Raise("Exception", "The IRSA server sent back an empty reply")
    ELSE Ok(content)

\* The parse failure passed on to the caller.
ParseFailedRaising(buffered, content, first_table) ==
    [buffered EXCEPT !.result = first_table, !.tmpfile = "open"]

\* The except clause of _parse_result: the failure is printed and the raw
\* body returned.
ParseFailed(buffered, content, first_table) ==
    [buffered EXCEPT !.result = Ok([t |-> "content", v |-> content]),
                     !.tmpfile = "closed",
                     !.logged = <<"Failed to parse votable! Returning raw result instead.",
                                  first_table.msg>>]

\* _parse_result once the body is in the temporary file, first_table being
\* how the VOTable parse ended and table how the conversion would end.  The
\* NamedTemporaryFile is never closed by the code: it is closed when the
\* frame that holds it is collected, which a return does at once and a raised
\* exception, whose traceback holds the frame, does not.
ReadTable(buffered, content, first_table, table) ==
    IF ~first_table.ok
    THEN ParseFailed(buffered, content, first_table)
    ELSE IF ~table.ok
    THEN [buffered EXCEPT !.result = table, !.to_table = 1, !.tmpfile = "open"]
    ELSE [buffered EXCEPT !.result = Ok(table.v), !.to_table = 1,
                          !.tmpfile = "closed",
                          !.warned = IF table.v.len = 0
                                     THEN {"Query returned no results, so the table will be empty"}
                                     ELSE {}]

\* _parse_result after the three checks, checked being how they ended.
AfterChecks(base, checked) ==
    IF ~checked.ok
    THEN [base EXCEPT !.result = checked]
    ELSE ReadTable([base EXCEPT !.written = checked.v, !.parse = 1], checked.v,
                   FirstTable(checked.v),
                   IF FirstTable(checked.v).ok THEN ToTable(FirstTable(checked.v).v)
                   ELSE None)

\* What a call of _parse_result does: how it ends, what became of its
\* temporary file, which parser calls it made, what it printed and warned.
_parse_result(content, verbose) ==
    AfterChecks([result |-> None, content |-> content, tmpfile |-> "none",
                 written |-> <<>>, parse |-> 0, to_table |-> 0,
                 suppressed |-> ~verbose, logged |-> <<>>, warned |-> {}],
                ErrorChecks(content))

\* commons.send_request(url, data, timeout, request_type='GET'): the request
\* as the transport helper gets it.
send_request(url, data, timeout, request_type) ==
    [url |-> url, data |-> data, timeout |-> timeout, request_type |-> request_type]

\* The payload returned only after the request is sent.
ReturnPayloadAfterSending(request_payload, warnings, content) ==
    [result |-> Ok([t |-> "payload", v |-> request_payload]),
     payload |-> request_payload,
     sent |-> <<[url |-> "IRSA_URL", data |-> request_payload,
                 timeout |-> "TIMEOUT", request_type |-> "GET"]>>,
     warned |-> warnings]

\* query_region_async returning the payload it built.
ReturnPayload(request_payload, warnings, content) ==
    [result |-> Ok([t |-> "payload", v |-> request_payload]),
     payload |-> request_payload, sent |-> <<>>, warned |-> warnings]

\* query_region_async handing the payload to the transport helper and
\* returning the response.
Send(request_payload, warnings, content) ==
    [result |-> Ok([t |-> "Response", content |-> content]),
     payload |-> request_payload,
     sent |-> <<send_request("IRSA_URL", request_payload, "TIMEOUT", "GET")>>,
     warned |-> warnings]

\* query_region_async from the merge of the spatial keys on, sp being how
\* _parse_spatial ended.
Request(common, sp, get_query_payload, content) ==
    IF ~sp.ok
    THEN [result |-> [sp EXCEPT !.w = {}], payload |-> common, sent |-> <<>>,
          warned |-> sp.w]
    ELSE IF get_query_payload
    THEN ReturnPayload(sp.v @@ common, sp.w, content)
    ELSE Send(sp.v @@ common, sp.w, content)

\* What a call of query_region_async does up to its return: the payload it
\* built, the requests it issued, how it ends.  content is the body of the
\* response the service gives to a request.
query_region_async(a, content) ==
    IF a.catalog.t = "None"
    THEN [result |-> Raise("Exception", "Catalog name is required!"),
          payload |-> None, sent |-> <<>>, warned |-> {}]
    ELSE Request(_args_to_payload(a.catalog),
                 _parse_spatial(a.spatial, a.coordinates, a.radius, a.width, a.polygon),
                 a.get_query_payload, content)

\* ------------------------------------------------------------- the arguments

Coordinates == {None, StrV(S_M31), StrV(S_deg), StrV(S_nounit), CoordV(7, 8)}

\* The default of radius in query_region and query_region_async.
DefaultRadius == Quantity(10, "arcsec")

Dimensions == {DefaultRadius, Quantity(2, "arcmin"), Quantity(1, "deg"),
               Quantity(2, "hourangle"), StrV(S_5d), Quantity(5, "m"), None}

PolygonItems == {TupleV(NumV(10), NumV(10)), TupleV(NumV(11), NumV(-12)),
                 TupleV(AngleV(5), AngleV(-6)), CoordV(7, 8), StrV(S_neg), StrV(S_M31)}

Polygons == {None} \cup {PyList(q) : q \in SeqsUpTo(PolygonItems, MaxPoly)}

ValidModes == {"Cone", "Box", "Polygon", "All-Sky"}

Spatials == ValidModes \cup {"Triangle", "NONE"}

Catalogs == {None, StrV("fp_psc")}

\* The argument lists of a call.  The arguments the spatial mode never reads
\* are either all left at their defaults or all passed.
ConeGeometry == [coordinates : Coordinates, radius : Dimensions,
         width : {None}, polygon : {None}]
        \cup [coordinates : Coordinates, radius : Dimensions,
              width : {Quantity(1, "deg")},
              polygon : {PyList(<<TupleV(NumV(10), NumV(10))>>)}]

BoxGeometry == [coordinates : Coordinates, radius : {DefaultRadius},
        width : Dimensions, polygon : {None}]
       \cup [coordinates : Coordinates, radius : {Quantity(2, "hourangle")},
             width : Dimensions,
             polygon : {PyList(<<TupleV(NumV(10), NumV(10))>>)}]

PolygonGeometry == [coordinates : Coordinates, radius : {DefaultRadius},
            width : {None}, polygon : Polygons]
           \cup [coordinates : Coordinates, radius : {Quantity(2, "hourangle")},
                 width : {Quantity(1, "deg")}, polygon : Polygons]

NoGeometry == {[coordinates |-> None, radius |-> DefaultRadius,
                width |-> None, polygon |-> None],
               [coordinates |-> StrV(S_deg), radius |-> Quantity(2, "hourangle"),
                width |-> Quantity(1, "deg"),
                polygon |-> PyList(<<TupleV(NumV(10), NumV(10))>>)]}

Geometry(spatial) ==
    CASE spatial = "Cone" -> ConeGeometry
      [] spatial = "Box" -> BoxGeometry
      [] spatial = "Polygon" -> PolygonGeometry
      [] OTHER -> NoGeometry

Arguments ==
    UNION {{[spatial |-> s, coordinates |-> g.coordinates, radius |-> g.radius,
             width |-> g.width, polygon |-> g.polygon, catalog |-> c,
             get_query_payload |-> p] :
               g \in Geometry(s), c \in Catalogs, p \in BOOLEAN} : s \in Spatials}

\* The library and configuration a process runs with: the exception
\* ICRSCoordinates raises for a value that is neither a string nor a
\* coordinate, and the configured row limit.
Builds == [icrsBadType : {"ValueError", "TypeError"}, ROW_LIMIT : {500}]

\* ------------------------------------------------------------------ actions

NoParser == [invoked |-> FALSE, content |-> <<>>, parse |-> 0, to_table |-> 0,
             suppressed |-> FALSE, written |-> <<>>]

Init ==
    /\ build \in Builds
    /\ pc = "idle"
    /\ call = None
    /\ payload = None
    /\ sent = <<>>
    /\ parser = NoParser
    /\ tmpfile = "none"
    /\ logged = <<>>
    /\ warned = {}
    /\ result = None

\* The bodies the service may answer a call with: any, when the call sends a
\* request.
Answers(a) ==
    IF query_region_async(a, <<>>).sent # <<>> THEN SeqsUpTo(Segments, MaxAnswer)
    ELSE {<<>>}

Finished(r) == IF r.ok THEN "returned" ELSE "raised"

\* Irsa.query_region_async(coordinates, catalog, spatial, radius, width,
\* polygon, get_query_payload)
QueryRegionAsync ==
    /\ pc = "idle"
    /\ \E a \in Arguments : \E content \in Answers(a) :
         \E r \in {query_region_async(a, content)} :
             /\ call' = [op |-> "query_region_async", args |-> a]
             /\ payload' = r.payload
             /\ sent' = r.sent
             /\ warned' = r.warned
             /\ result' = r.result
             /\ pc' = Finished(r.result)
    /\ UNCHANGED <<build, parser, tmpfile, logged>>

\* Irsa.query_region(coordinates, catalog, spatial, radius, width, polygon,
\* get_query_payload, verbose)
QueryRegion ==
    /\ pc = "idle"
    /\ \E a \in Arguments : \E verbose \in BOOLEAN : \E content \in Answers(a) :
         \E r \in {query_region_async(a, content)} :
             /\ call' = [op |-> "query_region", args |-> a, verbose |-> verbose]
             /\ payload' = r.payload
             /\ sent' = r.sent
             /\ IF r.result.ok /\ ~a.get_query_payload
                THEN \E p \in {_parse_result(r.result.v.content, verbose)} :
                     /\ parser' = [invoked |-> TRUE, content |-> p.content,
                                   parse |-> p.parse, to_table |-> p.to_table,
                                   suppressed |-> p.suppressed, written |-> p.written]
                     /\ tmpfile' = p.tmpfile
                     /\ logged' = p.logged
                     /\ warned' = r.warned \cup p.warned
                     /\ result' = p.result
                     /\ pc' = Finished(p.result)
                ELSE /\ UNCHANGED <<parser, tmpfile, logged>>
                     /\ warned' = r.warned
                     /\ result' = r.result
                     /\ pc' = Finished(r.result)
    /\ UNCHANGED build

\* Irsa._parse_result(response, verbose), called on a response in hand.
ParseResult ==
    /\ pc = "idle"
    /\ \E content \in Bodies : \E verbose \in BOOLEAN :
         \E p \in {_parse_result(content, verbose)} :
             /\ call' = [op |-> "_parse_result", content |-> content, verbose |-> verbose]
             /\ parser' = [invoked |-> TRUE, content |-> p.content,
                           parse |-> p.parse, to_table |-> p.to_table,
                           suppressed |-> p.suppressed, written |-> p.written]
             /\ tmpfile' = p.tmpfile
             /\ logged' = p.logged
             /\ warned' = p.warned
             /\ result' = p.result
             /\ pc' = Finished(p.result)
    /\ UNCHANGED <<build, payload, sent>>

\* The caller drops what the call gave it, a value or an exception; with the
\* exception goes the traceback and the frame it held.
Discard ==
    /\ pc \in {"returned", "raised"}
    /\ pc' = "idle"
    /\ call' = None
    /\ payload' = None
    /\ sent' = <<>>
    /\ parser' = NoParser
    /\ tmpfile' = "none"
    /\ logged' = <<>>
    /\ warned' = {}
    /\ result' = None
    /\ UNCHANGED build

Next == QueryRegionAsync \/ QueryRegion \/ ParseResult \/ Discard

Spec == Init /\ [][Next]_vars

\* ------------------------------------------------------------------- claims

\* The call in the state is one of the two query methods, and has ended.
QueryEnded == pc # "idle" /\ call.op \in {"query_region", "query_region_async"}

\* The call in the state ran _parse_result on a response body, and has ended.
ParserEnded == pc # "idle" /\ parser.invoked

CommonKeys == {"catalog", "outfmt", "outrows", "spatial"}

\* The keys the spatial mode prescribes beside the common ones.
ModeKeys(a) ==
    CASE a.spatial = "Cone" -> {"objstr", "radius", "radunits"}
      [] a.spatial = "Box" -> {"objstr", "size"}
      [] a.spatial = "Polygon" ->
           {"polygon"} \cup (IF a.coordinates.t # "None" THEN {"objstr"} ELSE {})
      [] OTHER -> {}

\* C1: the payload a query returns under get_query_payload=True has exactly
\* the common keys and the keys of its spatial mode, and the All-Sky mode is
\* encoded as the token NONE whatever geometry is passed with it.
C1_PayloadKeys ==
    (QueryEnded /\ pc = "returned" /\ call.args.get_query_payload)
    => /\ result.v.t = "payload"
       /\ DOMAIN result.v.v = CommonKeys \cup ModeKeys(call.args)
       /\ (call.args.spatial = "All-Sky" => result.v.v["spatial"] = StrV("NONE"))

C1_Witness ==
    /\ QueryEnded /\ pc = "returned" /\ call.args.get_query_payload
    /\ call.args.spatial = "All-Sky"
    /\ call.args.coordinates.t # "None" /\ call.args.polygon.t # "None"
    /\ result.v.v["spatial"] = StrV("NONE")

\* C2: under get_query_payload=True a query issues no request and never runs
\* the response parser, and what it returns is the payload it built.
C2_NoRequest ==
    (QueryEnded /\ call.args.get_query_payload)
    => /\ sent = <<>>
       /\ ~parser.invoked
       /\ tmpfile = "none"
       /\ (pc = "returned" => result.v.t = "payload" /\ result.v.v = payload)

C2_Witness ==
    /\ QueryEnded /\ call.args.get_query_payload /\ pc = "returned"
    /\ call.op = "query_region" /\ call.args.spatial = "Polygon"
    /\ result.v.t = "payload" /\ sent = <<>>

\* C3: a query with no catalog name, or with a spatial mode that is none of
\* the four, raises an invalid-argument error (for the mode, one whose
\* message names the four modes), returns nothing and issues no request,
\* whatever get_query_payload is.
C3_InvalidArgument ==
    (QueryEnded /\ (call.args.catalog.t = "None" \/ call.args.spatial \notin ValidModes))
    => /\ pc = "raised"
       /\ ~result.ok
       /\ sent = <<>>
       /\ IF call.args.catalog.t = "None"
          THEN result.exc = "Exception" /\ result.msg = "Catalog name is required!"
          ELSE /\ result.exc = "ValueError"
               /\ \A m \in ValidModes : \E i \in 1..Len(result.msg) : result.msg[i] = m

C3_Witness ==
    /\ QueryEnded /\ pc = "raised"
    /\ call.args.spatial = "Triangle" /\ call.args.catalog.t # "None"
    /\ call.args.get_query_payload
    /\ result.exc = "ValueError" /\ sent = <<>>

\* The mode's keys that a request carries with a value.
Carried(data, a) == {k \in ModeKeys(a) \cap DOMAIN data : data[k].t # "None"}

\* C4: every request handed to the transport helper carries the keys its
\* spatial mode requires, each with a value.
C4_RequiredKeys ==
    \A i \in 1..Len(sent) : Carried(sent[i].data, call.args) = ModeKeys(call.args)

\* C5: a body that contains "The catalog is not on the list" makes
\* _parse_result raise the catalog error whatever else it contains, before a
\* temporary file is created or a parse attempted.
C5_NotOnList ==
    (ParserEnded /\ \E i \in 1..Len(parser.content) : parser.content[i] = NotOnList)
    => /\ pc = "raised"
       /\ result.exc = "Exception" /\ result.msg = "Catalog not found"
       /\ tmpfile = "none"
       /\ parser.written = <<>> /\ parser.parse = 0 /\ parser.to_table = 0

C5_Witness ==
    /\ ParserEnded /\ pc = "raised"
    /\ \E i, j \in 1..Len(parser.content) :
         /\ i < j
         /\ parser.content[i] \in {BadObject, "<TABLE rows>"}
         /\ parser.content[j] = NotOnList
    /\ result.msg = "Catalog not found"

\* C6: an empty body makes _parse_result raise the empty-reply error; it is
\* not written to a temporary file, not parsed and not returned.
C6_EmptyReply ==
    (ParserEnded /\ Len(parser.content) = 0)
    => /\ pc = "raised"
       /\ ~result.ok
       /\ result.exc = "Exception"
       /\ result.msg = "The IRSA server sent back an empty reply"
       /\ tmpfile = "none"
       /\ parser.written = <<>> /\ parser.parse = 0 /\ parser.to_table = 0

C6_Witness ==
    /\ ParserEnded /\ pc = "raised" /\ call.op = "query_region"
    /\ parser.content = <<>>
    /\ sent # <<>>

\* The tokens of a comma-separated string, none for the empty string.
RECURSIVE SplitAtCommas(_)
SplitAtCommas(chars) ==
    LET commas == {i \in 1..Len(chars) : chars[i] = ","}
    IN  IF commas = {} THEN <<chars>>
        ELSE LET k == CHOOSE i \in commas : \A j \in commas : i <= j
             IN  <<SubSeq(chars, 1, k - 1)>> \o SplitAtCommas(SubSeq(chars, k + 1, Len(chars)))

Tokens(chars) == IF chars = <<>> THEN <<>> ELSE SplitAtCommas(chars)

Digits == {"0", "1", "2", "3", "4", "5", "6", "7", "8", "9"}

DigitValue(c) == CHOOSE d \in 0..9 : Digit(d) = c

RECURSIVE DecimalValue(_)
DecimalValue(chars) ==
    IF Len(chars) = 0 THEN 0
    ELSE 10 * DecimalValue(SubSeq(chars, 1, Len(chars) - 1)) + DigitValue(chars[Len(chars)])

IsDecimal(chars) == Len(chars) > 0 /\ \A i \in 1..Len(chars) : chars[i] \in Digits

\* The token reads "RA +Dec" or "RA -Dec", RA and Dec in decimal digits (RA
\* with a minus sign when negative), with the values ra and dec.
ReadsAs(token, ra, dec) ==
    \E k \in 1..Len(token) :
      LET left == SubSeq(token, 1, k - 1)
          right == SubSeq(token, k + 1, Len(token))
          unsigned == IF Len(left) > 0 /\ left[1] = "-" THEN Tail(left) ELSE left
      IN  /\ token[k] = " "
          /\ IsDecimal(unsigned)
          /\ (IF unsigned = left THEN DecimalValue(unsigned) ELSE -DecimalValue(unsigned)) = ra
          /\ Len(right) > 1
          /\ right[1] \in {"+", "-"}
          /\ IsDecimal(Tail(right))
          /\ (IF right[1] = "+" THEN DecimalValue(Tail(right))
              ELSE -DecimalValue(Tail(right))) = dec
          /\ (right[1] = "-" => dec # 0)

\* The position an item of a polygon list stands for, in degrees.
ItemDegrees(item) ==
    CASE item.t = "tuple" -> IF item.a.t = "num" THEN <<item.a.v, item.b.v>>
                             ELSE <<item.a.degree, item.b.degree>>
      [] item.t = "coord" -> <<item.ra, item.dec>>
      [] item.t = "str" -> IF item.v = S_deg THEN <<10, 41>> ELSE <<20, -5>>

\* The accepted forms of a polygon list: (ra, dec) tuples in decimal degrees,
\* tuples of Angles, or coordinate objects and parseable strings.
Accepted(items) ==
    \/ \A i \in 1..Len(items) :
         items[i].t = "tuple" /\ items[i].a.t = "num" /\ items[i].b.t = "num"
    \/ \A i \in 1..Len(items) :
         items[i].t = "tuple" /\ items[i].a.t = "Angle" /\ items[i].b.t = "Angle"
    \/ \A i \in 1..Len(items) :
         \/ items[i].t = "coord"
         \/ (items[i].t = "str" /\ items[i].v \in {S_deg, S_neg})

\* A query in Polygon mode, given a catalog and a polygon list, has ended.
PolygonEnded ==
    /\ QueryEnded
    /\ call.args.catalog.t # "None"
    /\ call.args.spatial = "Polygon"
    /\ call.args.polygon.t = "pylist"

\* A polygon list in an accepted form gives a polygon string of one
\* "RA +Dec" token per item, in the order of the items.
AcceptedPolygonFormatted ==
    (PolygonEnded /\ Accepted(call.args.polygon.items))
    => /\ "polygon" \in DOMAIN payload
       /\ (call.args.get_query_payload => pc = "returned")
       /\ LET items == call.args.polygon.items
              tokens == Tokens(payload["polygon"].v)
          IN  /\ Len(tokens) = Len(items)
              /\ \A i \in 1..Len(items) :
                   ReadsAs(tokens[i], ItemDegrees(items[i])[1], ItemDegrees(items[i])[2])

\* C7: a polygon list of N items in an accepted form gives exactly N
\* comma-separated "RA +Dec" tokens in the order of the items, and a list in
\* no accepted form fails with a unit or parse error.
C7_Polygon ==
    /\ AcceptedPolygonFormatted
    /\ (PolygonEnded /\ ~Accepted(call.args.polygon.items))
       => /\ pc = "raised"
          /\ "polygon" \notin DOMAIN payload
          /\ result.exc \in {"UnitsException", "ValueError"}

TableSegments == {"<TABLE rows>", "<TABLE empty>", "<TABLE odd>"}

\* _parse_result ran on a body that passes its three checks, and has ended.
ParsedEnded ==
    /\ ParserEnded
    /\ Len(parser.content) > 0
    /\ \A i \in 1..Len(parser.content) : parser.content[i] \notin {NotOnList, BadObject}

\* The first table of the body is the segment first_table.
FirstTableIs(first_table) ==
    \E i \in 1..Len(parser.content) :
      /\ parser.content[i] = first_table
      /\ \A j \in 1..(i - 1) : parser.content[j] \notin TableSegments

C9_TempFileReleased ==
    ParserEnded => tmpfile # "open"

ServiceUnits == {"arcsec", "arcmin", "deg"}

\* C10: a Cone payload has radius 10 and radunits arcsec for the default
\* radius; radunits is the unit of the radius given when that is arcsec,
\* arcmin or deg and deg otherwise, and radius is the same angle in that unit.
C10_ConeRadius ==
    (QueryEnded /\ call.args.catalog.t # "None" /\ call.args.spatial = "Cone")
    => LET r == call.args.radius
       IN  /\ (call.args.coordinates.t # "None"
                /\ (r.t = "str" \/ (r.t = "Quantity" /\ r.unit \in EquivalentUnits)))
              => "radunits" \in DOMAIN payload
           /\ (pc = "returned" \/ "radunits" \in DOMAIN payload)
              => /\ {"radius", "radunits"} \subseteq DOMAIN payload
                 /\ payload["radunits"].t = "str" /\ payload["radius"].t = "num"
                 /\ payload["radunits"].v \in ServiceUnits
                 /\ (r = DefaultRadius
                     => payload["radius"].v = 10 /\ payload["radunits"].v = "arcsec")
                 /\ (r.t = "Quantity" /\ r.unit \in ServiceUnits)
                    => (payload["radunits"].v = r.unit /\ payload["radius"].v = r.value)
                 /\ (r.t = "Quantity" /\ r.unit \notin ServiceUnits)
                    => /\ payload["radunits"].v = "deg"
                       /\ payload["radius"].v * ArcsecPer("deg") = r.value * ArcsecPer(r.unit)
                 /\ (r.t = "str" /\ r.v = S_5d)
                    => (payload["radunits"].v = "deg" /\ payload["radius"].v = 5)

C10_Witness ==
    /\ QueryEnded /\ pc = "returned" /\ call.args.spatial = "Cone"
    /\ call.args.radius = Quantity(2, "hourangle")
    /\ payload["radunits"].v = "deg" /\ payload["radius"].v = 30

\* C11: a Box payload has size equal to the width given, converted to
\* arc-seconds, whatever angular unit or angle string the width came in, and
\* has no key that names a unit.
C11_BoxSize ==
    (QueryEnded /\ call.args.catalog.t # "None" /\ call.args.spatial = "Box")
    => LET w == call.args.width
       IN  /\ (call.args.coordinates.t # "None"
                /\ (w.t = "str" \/ (w.t = "Quantity" /\ w.unit \in EquivalentUnits)))
              => "size" \in DOMAIN payload
           /\ (pc = "returned" \/ "size" \in DOMAIN payload)
              => /\ "size" \in DOMAIN payload
                 /\ payload["size"].t = "num"
                 /\ DOMAIN payload = CommonKeys \cup {"objstr", "size", "spatial"}
                 /\ w.t = "Quantity"
                    => payload["size"].v = w.value * ArcsecPer(w.unit)
                 /\ (w.t = "str" /\ w.v = S_5d)
                    => payload["size"].v = 5 * ArcsecPer("deg")

C11_Witness ==
    /\ QueryEnded /\ pc = "returned" /\ call.args.spatial = "Box"
    /\ call.args.width = Quantity(2, "hourangle")
    /\ "radunits" \notin DOMAIN payload
    /\ payload["size"].v = 108000

====
